---- MODULE Spec2Model ----
(***************************************************************************)
(* OD-33, asymptotic prime density estimator (src/OD-33.py).               *)
(*                                                                         *)
(* A Decimal is modelled as the record [c |-> coefficient, e |-> exponent] *)
(* of value c * 10^e, kept canonical (no trailing zero in c, zero is       *)
(* [c |-> 0, e |-> 0]) so that record equality is numeric equality.  Every *)
(* arithmetic result is rounded ROUND_HALF_EVEN to Digits significant      *)
(* digits, as the decimal context rounds it to getcontext().prec digits;   *)
(* the exponent is unbounded, so 1e-30 and C / 1e-30 are exact values.     *)
(* A raised exception is modelled as the record [exc |-> name].            *)
(***************************************************************************)
EXTENDS Integers, Sequences, FiniteSets

VARIABLES
    ctx,        \* getcontext(): [prec, rounding]
    ref,        \* the module-level list PI10_REF
    pc,         \* position of the running call
    argv,       \* parsed command line of main: [prec, kmin, kmax]
    args,       \* arguments of the running call: [A, B, C, k_min, k_max]
    x,          \* argument x of legendre_factor / pi_hat
    lf,         \* locals of the last legendre_factor call: [L, d, ret]
    k, s, max_abs, k_of_max, n,   \* locals of the metrics / self_test loop
    pt,         \* the evaluation point of the last loop iteration
    ret,        \* value returned (or exception raised) by the last call
    prev        \* arguments and outcome of the call completed before

\* Significant digits carried by the modelled decimal arithmetic.
Digits == 3

\* ------------------------------------------------------------------------
\* Decimal arithmetic
\* ------------------------------------------------------------------------

Dec(c, e) == [c |-> c, e |-> e]

Exc(name) == [exc |-> name]

IsExc(v) == "exc" \in DOMAIN v

IntAbs(i) == IF i < 0 THEN -i ELSE i

IntSign(i) == IF i < 0 THEN -1 ELSE IF i > 0 THEN 1 ELSE 0

IntMin(a, b) == IF a <= b THEN a ELSE b

\* Binds v to the parameter of F: the value of a local assigned once.
With(v, F(_)) == F(v)

RECURSIVE NumDigits(_)
NumDigits(i) == IF i < 10 THEN 1 ELSE 1 + NumDigits(i \div 10)

\* Canonical form: trailing zeros of the coefficient moved into the exponent.
RECURSIVE DecNorm(_, _)
DecNorm(c, e) ==
    IF c = 0 THEN Dec(0, 0)
    ELSE IF IntAbs(c) % 10 = 0 THEN DecNorm(IntSign(c) * (IntAbs(c) \div 10), e + 1)
    ELSE Dec(c, e)

\* The context's rounding: ROUND_HALF_EVEN to Digits significant digits.
DecRound(c, e) ==
    With(NumDigits(IntAbs(c)) - Digits, LAMBDA drop :
        IF drop <= 0 THEN DecNorm(c, e)
        ELSE With(IntAbs(c) \div (10 ^ drop), LAMBDA q :
             With(IntAbs(c) % (10 ^ drop), LAMBDA r :
             With(5 * (10 ^ (drop - 1)), LAMBDA half :
                 IF r > half \/ (r = half /\ q % 2 = 1)
                 THEN DecNorm(IntSign(c) * (q + 1), e + drop)
                 ELSE DecNorm(IntSign(c) * q, e + drop)))))

\* Adjusted exponent: the value lies in [10^(Adj-1), 10^Adj).
Adj(a) == NumDigits(IntAbs(a.c)) + a.e

DecNeg(a) == Dec(-a.c, a.e)

DecAbs(a) == Dec(IntAbs(a.c), a.e)

\* a + b, exact and then rounded.  An operand more than Digits + 1 decimal
\* orders below the other cannot change the rounded sum.
DecAdd(a, b) ==
    IF a.c = 0 THEN b
    ELSE IF b.c = 0 THEN a
    ELSE IF Adj(a) - Adj(b) > Digits + 1 THEN a
    ELSE IF Adj(b) - Adj(a) > Digits + 1 THEN b
    ELSE With(IntMin(a.e, b.e), LAMBDA m :
             DecRound(a.c * (10 ^ (a.e - m)) + b.c * (10 ^ (b.e - m)), m))

DecSub(a, b) == DecAdd(a, DecNeg(b))

DecMul(a, b) == DecRound(a.c * b.c, a.e + b.e)

\* Sign of a - b, computed exactly.
DecCmp(a, b) ==
    IF IntSign(a.c) # IntSign(b.c) THEN IntSign(IntSign(a.c) - IntSign(b.c))
    ELSE IF a.c = 0 THEN 0
    ELSE IF Adj(a) # Adj(b) THEN IntSign(a.c) * IntSign(Adj(a) - Adj(b))
    ELSE With(IntMin(a.e, b.e), LAMBDA m :
             IntSign(a.c * (10 ^ (a.e - m)) - b.c * (10 ^ (b.e - m))))

DecLt(a, b) == DecCmp(a, b) < 0

DecLe(a, b) == DecCmp(a, b) <= 0

DecGt(a, b) == DecCmp(a, b) > 0

DecGe(a, b) == DecCmp(a, b) >= 0

\* Smallest sh with num * 10^sh >= den  (num, den >= 1).
RECURSIVE DivShift(_, _)
DivShift(num, den) == IF num >= den THEN 0 ELSE 1 + DivShift(num * 10, den)

\* a / b.  Division by zero raises: 0 / 0 signals InvalidOperation
\* (DivisionUndefined), x / 0 signals DivisionByZero; both are trapped.
DecDiv(a, b) ==
    IF b.c = 0 THEN (IF a.c = 0 THEN Exc("InvalidOperation") ELSE Exc("DivisionByZero"))
    ELSE IF a.c = 0 THEN Dec(0, 0)
    ELSE With(IntAbs(a.c), LAMBDA num :
         With(IntAbs(b.c), LAMBDA den :
         With(DivShift(num, den * (10 ^ Digits)), LAMBDA sh :
         With((num * (10 ^ sh)) \div den, LAMBDA q :
         With((num * (10 ^ sh)) % den, LAMBDA r :
         With(q % 10, LAMBDA ld :
         With(IntSign(a.c) * IntSign(b.c), LAMBDA sg :
             IF ld > 5 \/ (ld = 5 /\ r > 0) \/ (ld = 5 /\ r = 0 /\ (q \div 10) % 2 = 1)
             THEN DecRound(sg * ((q \div 10) + 1), a.e - b.e - sh + 1)
             ELSE DecRound(sg * (q \div 10), a.e - b.e - sh + 1))))))))

DecZero == Dec(0, 0)

\* ------------------------------------------------------------------------
\* Frozen parameters and reference table (rounded to Digits digits)
\* ------------------------------------------------------------------------

A_33 == DecRound(457694450, -8)

B_33 == DecRound(107654, -5)

C_33 == DecRound(26067, -5)

\* pi(10^k), k = 0..29, by its nine leading digits and exponent; entry k is at k + 1.
PI10_REF ==
    << Dec(0, 0), Dec(4, 0), Dec(25, 0), Dec(168, 0), Dec(1229, 0), Dec(9592, 0),
       Dec(78498, 0), Dec(664579, 0), Dec(5761455, 0), Dec(50847534, 0),
       Dec(455052511, 0), Dec(411805481, 1), Dec(376079120, 2), Dec(346065537, 3),
       Dec(320494175, 4), Dec(298445704, 5), Dec(279238341, 6),
       Dec(262355716, 7), Dec(247399543, 8),
       Dec(234057667, 9), Dec(222081960, 10),
       Dec(211272695, 11), Dec(201467287, 12),
       Dec(192532039, 13), Dec(184355998, 14),
       Dec(176846309, 15), Dec(169924675, 16),
       Dec(163524604, 17), Dec(157589269, 18),
       Dec(152069811, 19) >>

\* ------------------------------------------------------------------------
\* Decimal utils
\* ------------------------------------------------------------------------

\* Variant of set_ctx without the floor of 60.
set_ctx_unclamped(prec) == [prec |-> prec, rounding |-> "ROUND_HALF_EVEN"]

set_ctx(prec) == [prec |-> IF prec > 60 THEN prec ELSE 60, rounding |-> "ROUND_HALF_EVEN"]

\* ln(m), m = 1..10, in units of 1e-7.
LnDigit ==
    <<0, 6931472, 10986123, 13862944, 16094379, 17917595, 19459101, 20794415,
      21972246, 23025851>>

\* x.ln() for x = m * 10^e with m in 1..9: ln(m) + e * ln(10), rounded by the
\* context.
lnD(v) == DecRound(LnDigit[v.c] + v.e * LnDigit[10], -7)

\* ------------------------------------------------------------------------
\* Core estimation logic
\* ------------------------------------------------------------------------

EPS == Dec(1, -30)

\* Variant of the guard that loses the sign of d.
clamp_d_unsigned(d) == IF DecLt(DecAbs(d), EPS) THEN EPS ELSE d

\* The near-zero guard on the denominator d = L - A.
clamp_d(d) ==
    IF DecLt(DecAbs(d), EPS)
    THEN (IF DecGe(d, DecZero) THEN EPS ELSE DecNeg(EPS))
    ELSE d

\* The locals of legendre_factor at its return.
legendre_locals(v, A, B, C) ==
    With(lnD(v), LAMBDA L :
    With(clamp_d(DecSub(L, A)), LAMBDA d :
    With(DecDiv(C, d), LAMBDA q :
        [L |-> L, d |-> d, ret |-> IF IsExc(q) THEN q ELSE DecAdd(DecSub(L, B), q)])))

legendre_factor(v, A, B, C) == legendre_locals(v, A, B, C).ret

\* Variant of pi_hat without the fallback to x / L.
pi_hat_nofallback(v, A, B, C) ==
    IF DecLt(v, Dec(2, 0)) THEN DecZero
    ELSE With(legendre_factor(v, A, B, C), LAMBDA Lx :
             IF IsExc(Lx) THEN Lx ELSE DecDiv(v, Lx))

\* Variant of pi_hat that falls back only when Lx < 0.
pi_hat_strict(v, A, B, C) ==
    IF DecLt(v, Dec(2, 0)) THEN DecZero
    ELSE With(lnD(v), LAMBDA L :
         With(legendre_factor(v, A, B, C), LAMBDA Lx :
             IF IsExc(Lx) THEN Lx
             ELSE IF DecLt(Lx, DecZero) THEN DecDiv(v, L)
             ELSE DecDiv(v, Lx)))

pi_hat(v, A, B, C) ==
    IF DecLt(v, Dec(2, 0)) THEN DecZero
    ELSE With(lnD(v), LAMBDA L :
         With(legendre_factor(v, A, B, C), LAMBDA Lx :
             IF IsExc(Lx) THEN Lx
             ELSE IF DecLe(Lx, DecZero) THEN DecDiv(v, L)
             ELSE DecDiv(v, Lx)))

\* ------------------------------------------------------------------------
\* Batch metrics (metrics, and the same loop inlined in self_test)
\* ------------------------------------------------------------------------

NoVal == [none |-> TRUE]

\* lst[i] of a Python list: a negative index counts from the end, an index
\* outside -len..len-1 raises IndexError.
ListGet(lst, i) ==
    IF 0 <= i /\ i < Len(lst) THEN lst[i + 1]
    ELSE IF -Len(lst) <= i /\ i < 0 THEN lst[Len(lst) + i + 1]
    ELSE Exc("IndexError")

\* Decimal(PI10_REF[k]) of a table entry.
DecOfInt(t) == DecRound(t.c, t.e)

\* Decimal(10) ** k
Pow10(i) == Dec(1, i)

\* rel_pct = (est - true) / true * Decimal(100)
rel_pct(est, true) ==
    With(DecDiv(DecSub(est, true), true), LAMBDA q :
        IF IsExc(q) THEN q ELSE DecMul(q, Dec(1, 2)))

\* Variant that keeps the accumulators of the call before.
loop_init_stale(k_min) ==
    [s |-> s, max_abs |-> max_abs, k_of_max |-> k_of_max, n |-> n]

\* Variant that starts the count at 1.
loop_init_count1(k_min) ==
    [s |-> DecZero, max_abs |-> DecZero, k_of_max |-> k_min, n |-> Dec(1, 0)]

\* The accumulators as metrics / self_test initialise them.
loop_init(k_min) ==
    [s |-> DecZero, max_abs |-> DecZero, k_of_max |-> k_min, n |-> DecZero]

\* Variant that lets an equal value replace the recorded maximum.
track_max_ge(a, i, cur_max, cur_k) ==
    IF DecGe(a, cur_max) THEN <<a, i>> ELSE <<cur_max, cur_k>>

\* if a > max_abs: max_abs = a; k_of_max = k
track_max(a, i, cur_max, cur_k) ==
    IF DecGt(a, cur_max) THEN <<a, i>> ELSE <<cur_max, cur_k>>

\* n += 1
count_up(cnt) == DecAdd(cnt, Dec(1, 0))

\* One iteration of the loop body at exponent i: the evaluation point, or
\* the exception the body raises.
loop_point(tab, i, A, B, C) ==
    With(ListGet(tab, i), LAMBDA t :
        IF IsExc(t) THEN t
        ELSE With(DecOfInt(t), LAMBDA true :
             With(pi_hat(Pow10(i), A, B, C), LAMBDA est :
                 IF IsExc(est) THEN est
                 ELSE With(rel_pct(est, true), LAMBDA rel :
                     IF IsExc(rel) THEN rel
                     ELSE [k |-> i, true |-> true, est |-> est, rel |-> rel]))))

\* return (s / n), max_abs, k_of_max
loop_result(sum, cnt, mx, kmx) ==
    With(DecDiv(sum, cnt), LAMBDA q :
        IF IsExc(q) THEN q ELSE [mean |-> q, max |-> mx, k_of_max |-> kmx])

vars == <<ctx, ref, pc, argv, args, x, lf, k, s, max_abs, k_of_max, n, pt, ret, prev>>

loop_vars == <<k, s, max_abs, k_of_max, n, pt>>

\* ------------------------------------------------------------------------
\* SpecEst: legendre_factor and pi_hat applied to inputs drawn in Init
\* ------------------------------------------------------------------------

\* Largest decimal exponent of the arguments x drawn for the estimator.
MaxExp == 1

\* Arguments with a one-digit coefficient (the domain of lnD above).
XPos == {Dec(m, e) : m \in 1..9, e \in -1..MaxExp}

XSet == XPos \cup {DecZero, Dec(-1, 0), Dec(-2, 0)}

\* Values within and at the edge of the 1e-30 guard.
Tiny == {DecNorm(c, -31) : c \in {-20, -10, -5, 0, 5, 10, 20}}

ASet == Tiny \cup {lnD(v) : v \in XPos} \cup {A_33}

BSet == {DecZero, B_33} \cup {lnD(Dec(m, 0)) : m \in 2..9}

CSet == {DecZero, C_33, Dec(1, 0), Dec(-1, 0), Dec(-5, 1)}

EstInit ==
    /\ ctx = set_ctx(300)
    /\ ref = PI10_REF
    /\ pc = "ready"
    /\ argv = NoVal
    /\ x \in XSet
    /\ args \in {[A |-> a, B |-> b, C |-> c, k_min |-> 0, k_max |-> 0] :
                    a \in ASet, b \in BSet, c \in CSet}
    /\ lf = NoVal
    /\ k = 0 /\ s = DecZero /\ max_abs = DecZero /\ k_of_max = 0 /\ n = DecZero
    /\ pt = NoVal
    /\ ret = NoVal
    /\ prev = NoVal

call_legendre_factor ==
    /\ pc = "ready"
    /\ DecGt(x, DecZero)
    /\ lf' = legendre_locals(x, args.A, args.B, args.C)
    /\ ret' = legendre_factor(x, args.A, args.B, args.C)
    /\ pc' = "legendre_factor"
    /\ UNCHANGED <<ctx, ref, argv, args, x, loop_vars, prev>>

call_pi_hat ==
    /\ pc = "ready"
    /\ lf' = IF DecLt(x, Dec(2, 0)) THEN NoVal
             ELSE legendre_locals(x, args.A, args.B, args.C)
    /\ ret' = pi_hat(x, args.A, args.B, args.C)
    /\ pc' = "pi_hat"
    /\ UNCHANGED <<ctx, ref, argv, args, x, loop_vars, prev>>

EstNext == call_legendre_factor \/ call_pi_hat

SpecEst == EstInit /\ [][EstNext]_vars

\* ------------------------------------------------------------------------
\* SpecMetrics: successive calls of metrics
\* ------------------------------------------------------------------------

\* Exponent bounds drawn for k_min and k_max: inside, at the edges of and
\* beyond the table, and the negative indices Python accepts.
KVals == {-31, -30, -2, -1, 0, 1, 3, 27, 29, 30}

\* Upper ends drawn for successive metrics calls.
KHigh == {-1, 0, 3, 29, 30}

\* The frozen triple, and one whose B makes the corrected divisor negative.
Triples == { <<A_33, B_33, C_33>>, <<A_33, Dec(1, 2), C_33>> }

MetricsArgs ==
    {[A |-> t[1], B |-> t[2], C |-> t[3], k_min |-> lo, k_max |-> hi] :
        t \in Triples, lo \in KVals, hi \in KHigh}

MetricsInit ==
    /\ ctx = set_ctx(300)
    /\ ref = PI10_REF
    /\ pc = "idle"
    /\ argv = NoVal
    /\ x = NoVal
    /\ args = NoVal
    /\ lf = NoVal
    /\ k = 0 /\ s = DecZero /\ max_abs = DecZero /\ k_of_max = 0 /\ n = DecZero
    /\ pt = NoVal
    /\ ret = NoVal
    /\ prev = NoVal

\* Entry of the loop: the accumulators are set and k starts at k_min.
loop_enter(k_min) ==
    \E st \in {loop_init(k_min)} :
        /\ s' = st.s
        /\ max_abs' = st.max_abs
        /\ k_of_max' = st.k_of_max
        /\ n' = st.n
        /\ k' = k_min
        /\ pt' = NoVal

\* One iteration of `for k in range(k_min, k_max + 1)`.
loop_iter ==
    /\ pc = "loop"
    /\ k <= args.k_max
    /\ \E p \in {loop_point(ref, k, args.A, args.B, args.C)} :
          IF IsExc(p)
          THEN /\ pc' = "raised"
               /\ ret' = p
               /\ UNCHANGED loop_vars
          ELSE \E mk \in {track_max(DecAbs(p.rel), k, max_abs, k_of_max)} :
                  /\ pt' = p
                  /\ s' = DecAdd(s, DecAbs(p.rel))
                  /\ n' = count_up(n)
                  /\ max_abs' = mk[1]
                  /\ k_of_max' = mk[2]
                  /\ k' = k + 1
                  /\ UNCHANGED <<pc, ret>>
    /\ UNCHANGED <<ctx, ref, argv, args, x, lf, prev>>

\* The range is exhausted: the mean is formed and the call ends.
loop_exit(done) ==
    /\ pc = "loop"
    /\ k > args.k_max
    /\ \E r \in {loop_result(s, n, max_abs, k_of_max)} :
          /\ ret' = r
          /\ pc' = IF IsExc(r) THEN "raised" ELSE done
    /\ UNCHANGED <<ctx, ref, argv, args, x, lf, loop_vars, prev>>

metrics_call ==
    /\ pc \in {"idle", "returned", "raised"}
    /\ \E a \in MetricsArgs :
          /\ args' = a
          /\ loop_enter(a.k_min)
    /\ prev' = IF pc = "idle" THEN NoVal ELSE [args |-> args, ret |-> ret]
    /\ ret' = NoVal
    /\ pc' = "loop"
    /\ UNCHANGED <<ctx, ref, argv, x, lf>>

metrics_iter == loop_iter

metrics_return == loop_exit("returned")

MetricsNext == metrics_call \/ metrics_iter \/ metrics_return

SpecMetrics == MetricsInit /\ [][MetricsNext]_vars

\* ------------------------------------------------------------------------
\* SpecMain: one run of the driver
\* ------------------------------------------------------------------------

PrecVals == {-5, 0, 59, 60, 61, 300}

MainInit ==
    /\ ctx = [prec |-> 28, rounding |-> "ROUND_HALF_EVEN"]
    /\ ref = PI10_REF
    /\ pc = "main"
    /\ argv \in {[prec |-> p, kmin |-> lo, kmax |-> hi] :
                    p \in PrecVals, lo \in KVals, hi \in KVals}
    /\ x = NoVal
    /\ args = NoVal
    /\ lf = NoVal
    /\ k = 0 /\ s = DecZero /\ max_abs = DecZero /\ k_of_max = 0 /\ n = DecZero
    /\ pt = NoVal
    /\ ret = NoVal
    /\ prev = NoVal

main_set_ctx ==
    /\ pc = "main"
    /\ ctx' = set_ctx(argv.prec)
    /\ pc' = "call_self_test"
    /\ UNCHANGED <<ref, argv, args, x, lf, loop_vars, ret, prev>>

self_test_enter ==
    /\ pc = "call_self_test"
    /\ args' = [A |-> A_33, B |-> B_33, C |-> C_33,
                k_min |-> argv.kmin, k_max |-> argv.kmax]
    /\ loop_enter(argv.kmin)
    /\ pc' = "loop"
    /\ UNCHANGED <<ctx, ref, argv, x, lf, ret, prev>>

self_test_iter == loop_iter

self_test_end == loop_exit("exit")

MainNext == main_set_ctx \/ self_test_enter \/ self_test_iter \/ self_test_end

SpecMain == MainInit /\ [][MainNext]_vars

\* ------------------------------------------------------------------------
\* Properties
\* ------------------------------------------------------------------------

Two == Dec(2, 0)

Finished == pc \in {"returned", "raised"}

\* |rel_pct| at exponent i for the running call's triple.
AbsRel(i) == DecAbs(loop_point(ref, i, args.A, args.B, args.C).rel)

\* Sum of |rel_pct(i)| for i = lo..hi, added in loop order.
RECURSIVE AbsSum(_, _)
AbsSum(lo, hi) == IF hi < lo THEN DecZero ELSE DecAdd(AbsSum(lo, hi - 1), AbsRel(hi))

\* C1: for every x >= 2 and every triple, pi_hat returns a value strictly
\* greater than 0, whichever divisor (Lx or ln(x)) is used.
C1_PiHatPositive ==
    (pc = "pi_hat" /\ DecGe(x, Two)) => (~IsExc(ret) /\ ret.c > 0)

\* pi_hat was applied to x >= 2 with the guard active (d = +1e-30) and a
\* non-positive Lx, so the fallback divisor was used.
C1_Witness ==
    /\ pc = "pi_hat"
    /\ DecGe(x, Two)
    /\ lf.d = EPS
    /\ DecLe(lf.ret, DecZero)
    /\ ret.c > 0

\* C2: pi_hat equals the piecewise reference: 0 for x < 2 (no logarithm is
\* taken), x / ln(x) for x >= 2 with legendre_factor <= 0, and
\* x / legendre_factor for x >= 2 with legendre_factor > 0.
C2_PiHatPiecewise ==
    pc = "pi_hat" =>
        ret = IF DecLt(x, Two) THEN DecZero
              ELSE IF DecLe(legendre_factor(x, args.A, args.B, args.C), DecZero)
                   THEN DecDiv(x, lnD(x))
                   ELSE DecDiv(x, legendre_factor(x, args.A, args.B, args.C))

\* pi_hat was applied to x >= 2 where legendre_factor is exactly 0.
C2_Witness ==
    /\ pc = "pi_hat"
    /\ DecGe(x, Two)
    /\ lf.ret = DecZero
    /\ ret = DecDiv(x, lnD(x))

\* C3: legendre_factor never raises; with d = ln(x) - A the denominator used
\* is d when |d| >= 1e-30, +1e-30 when 0 <= d < 1e-30 and -1e-30 when
\* -1e-30 < d < 0, and the result is L - B + C / (that denominator).
C3_LegendreClamp ==
    pc = "legendre_factor" =>
        With(DecSub(lnD(x), args.A), LAMBDA d0 :
            /\ ~IsExc(ret)
            /\ DecGe(DecAbs(lf.d), EPS)
            /\ lf.d = IF DecGe(DecAbs(d0), EPS) THEN d0
                      ELSE IF DecGe(d0, DecZero) THEN EPS
                      ELSE DecNeg(EPS)
            /\ ret = DecAdd(DecSub(lnD(x), args.B), DecDiv(args.C, lf.d)))

\* legendre_factor was applied where -1e-30 < ln(x) - A < 0 and used -1e-30.
C3_Witness ==
    /\ pc = "legendre_factor"
    /\ DecLt(DecSub(lnD(x), args.A), DecZero)
    /\ DecGt(DecSub(lnD(x), args.A), DecNeg(EPS))
    /\ lf.d = DecNeg(EPS)

\* C4: a metrics call with k_min <= k_max and k_max > 29 ends in an
\* IndexError and returns no tuple.
C4_IndexErrorPastTable ==
    (Finished /\ args.k_min <= args.k_max /\ args.k_max > 29)
        => (pc = "raised" /\ ret = Exc("IndexError"))

\* C5: metrics forms no evaluation point (and so no relative error) for an
\* exponent outside 0..29, and an iteration at such an exponent raises
\* IndexError.
C5_NoPointOutsideTable ==
    /\ "k" \in DOMAIN pt => (0 <= pt.k /\ pt.k <= 29)
    /\ (pc = "raised" /\ k <= args.k_max /\ (k < 0 \/ k > 29)) => ret = Exc("IndexError")

\* C6: for 0 <= k_min <= k_max <= 29 a metrics call returns and does not
\* raise.
C6_NoRaiseInsideTable ==
    (Finished /\ 0 <= args.k_min /\ args.k_min <= args.k_max /\ args.k_max <= 29)
        => pc = "returned"

\* C7: for 1 <= k_min <= k_max <= 29 metrics returns (mean, max, k_of_max)
\* with mean >= 0, max >= 0, k_min <= k_of_max <= k_max and mean equal to the
\* sum of |rel_pct(k)| over the range divided by k_max - k_min + 1.
C7_MetricsTuple ==
    (Finished /\ 1 <= args.k_min /\ args.k_min <= args.k_max /\ args.k_max <= 29)
        => /\ pc = "returned"
           /\ DecGe(ret.mean, DecZero)
           /\ DecGe(ret.max, DecZero)
           /\ args.k_min <= ret.k_of_max
           /\ ret.k_of_max <= args.k_max
           /\ ret.mean = DecDiv(AbsSum(args.k_min, args.k_max),
                                DecNorm(args.k_max - args.k_min + 1, 0))

\* metrics(A, B, C, 3, 29) returned with a positive maximum.
C7_Witness ==
    /\ pc = "returned"
    /\ args.k_min = 3
    /\ args.k_max = 29
    /\ DecGt(ret.max, DecZero)

\* C8: a metrics call leaves the precision context and the reference table
\* as they were and its arguments unchanged while it runs, and a call with
\* the arguments of the call completed before it has the same outcome.
C8_NoHiddenState ==
    /\ [](( Finished /\ "args" \in DOMAIN prev /\ prev.args = args) => prev.ret = ret)
    /\ [][ctx' = ctx /\ ref' = ref /\ (pc = "loop" => args' = args)]_vars

\* Two successive calls with the same arguments have both returned.
C8_Witness ==
    /\ pc = "returned"
    /\ "args" \in DOMAIN prev
    /\ prev.args = args
    /\ args.k_min < args.k_max
    /\ DecGt(ret.mean, DecZero)

\* C9: the returned k_of_max is the smallest k of the range whose |rel_pct|
\* equals the returned max.
C9_FirstOccurrence ==
    pc = "returned" =>
        /\ ret.k_of_max \in args.k_min..args.k_max
        /\ AbsRel(ret.k_of_max) = ret.max
        /\ \A j \in args.k_min..(ret.k_of_max - 1) : AbsRel(j) # ret.max

\* metrics returned for a range inside the table in which a later k has the
\* same |rel_pct| as the recorded maximum.
C9_Witness ==
    /\ pc = "returned"
    /\ args.k_min >= 1
    /\ \E j \in (ret.k_of_max + 1)..args.k_max : AbsRel(j) = ret.max

\* C10: in a run of the driver the context is set once, before any
\* arithmetic, to max(60, requested) digits with round-half-even, and is not
\* changed afterwards; so prec >= 60 wherever arithmetic is done.
C10_PrecisionFloor ==
    /\ [](pc # "main" =>
            /\ ctx.prec >= 60
            /\ ctx.prec = (IF argv.prec > 60 THEN argv.prec ELSE 60)
            /\ ctx.rounding = "ROUND_HALF_EVEN")
    /\ [][pc # "main" => ctx' = ctx]_vars

\* A run requested fewer than 60 digits and completed its loop at 60.
C10_Witness ==
    /\ pc = "exit"
    /\ argv.prec < 60
    /\ ctx.prec = 60
    /\ DecGt(n, DecZero)

====
